---------------------------- MODULE Spec2Model ----------------------------
(***************************************************************************)
(* A model of myviz.bokeh_maps.styled_election_map: the preparation of the *)
(* table behind the election map (filter, group-by, pivot, left merge,     *)
(* percentages, NaN/inf clean-up), the initial render, and the client-side *)
(* callback run on every change of the candidate selector.                 *)
(*                                                                         *)
(* Conventions.  A candidate is a natural number: its rank in the lexical  *)
(* order of the candidate names, which is the order of the pivot's         *)
(* columns.  A float cell of the merged table is a record [k, v] with      *)
(* k = "num" (the value v), "nan" or "inf".  Percentages rounded to two    *)
(* decimals are kept in hundredths (33.33 is 3333), national shares        *)
(* rounded to one decimal in tenths (30.0 is 300); divisions are exact     *)
(* rationals rounded as the library rounds.  Polygons are not modelled: a  *)
(* row of the geometry is its position and its region name.  The results   *)
(* file is a set of rows: the pipeline does not depend on their order, and *)
(* the rows of one (region, candidate) pair are summed.  Vote counts are   *)
(* natural numbers.                                                        *)
(***************************************************************************)
EXTENDS Integers, Sequences, FiniteSets

\* ------------------------------------------------------------- bounds
MaxGeo == 2
MaxRows == 3
MaxCand == 2
MaxVotes == 2
ManyCands == 31

\* the year kept by the filter
TargetYear == 2024

Regions == {"A", "B"}
Years == {2019, TargetYear}

VARIABLES
    gdf_moughataas,   \* region names of the geometry rows, in file order
    df_elections,     \* rows of the results file
    pc,               \* "called", "rendered" or "raised"
    candidats,        \* candidate columns, in column order
    totaux_nationaux, \* candidate -> national total over the pivot
    gagnant_national, \* the leader (0 before it is chosen)
    source,           \* the data source of the map (gdf_clean), a sequence of rows
    color_mapper,     \* [low, high]
    fill_field,       \* candidate whose column colours the polygons
    title,            \* candidate named in the plot title
    hover,            \* [voix, part]: candidates whose columns the tooltip reads
    info_div,         \* summary panel: [candidat, total, part, leader]
    select_value,     \* value of the Select widget
    last_event        \* "none", "render" or "change": what wrote the view last

vars == <<gdf_moughataas, df_elections, pc, candidats, totaux_nationaux,
          gagnant_national, source, color_mapper, fill_field, title, hover,
          info_div, select_value, last_event>>

\* ------------------------------------------------------------- floats
Num(n) == [k |-> "num", v |-> n]
NaN == [k |-> "nan", v |-> 0]
Inf == [k |-> "inf", v |-> 0]

\* num/den rounded to an integer, ties to even (numpy round, Python format)
RoundHalfEven(num, den) ==
    LET q == num \div den
        r == num % den
    IN  IF 2 * r < den THEN q
        ELSE IF 2 * r > den THEN q + 1
        ELSE IF q % 2 = 0 THEN q ELSE q + 1

\* num/den rounded to an integer, ties upwards (Number.prototype.toFixed)
RoundHalfUp(num, den) ==
    LET q == num \div den
        r == num % den
    IN  IF 2 * r >= den THEN q + 1 ELSE q

RECURSIVE SumVotes(_)
SumVotes(S) ==
    IF S = {} THEN 0
    ELSE LET r == CHOOSE x \in S : TRUE
         IN  r.nb_votes + SumVotes(S \ {r})

RECURSIVE SumOver(_, _)
\* sum of f[x] over the elements x of the sequence s
SumOver(f, s) ==
    IF s = <<>> THEN 0 ELSE f[Head(s)] + SumOver(f, Tail(s))

RECURSIVE SortedSeq(_)
SortedSeq(S) ==
    IF S = {} THEN <<>>
    ELSE LET m == CHOOSE x \in S : \A y \in S : x <= y
         IN  <<m>> \o SortedSeq(S \ {m})


RECURSIVE SumSet(_, _)
\* sum of f[x] over the elements x of the set S
SumSet(f, S) ==
    IF S = {} THEN 0
    ELSE LET x == CHOOSE y \in S : TRUE
         IN  f[x] + SumSet(f, S \ {x})

\* ------------------------------------------------------- preparation
\* a filter that keeps every year
FilterYearAll(df) == df

\* df_elections[df_elections['year'] == 2024]
FilterYear(df) == {r \in df : r.year = TargetYear}

\* groupby(["moughataa", "candidate"])["nb_votes"].sum(): one entry per pair
\* that has a row, duplicates summed
GroupBySum(df) ==
    [key \in {<<r.moughataa, r.candidate>> : r \in df} |->
        SumVotes({r \in df : r.moughataa = key[1] /\ r.candidate = key[2]})]

\* pivot(index="moughataa", columns="candidate").fillna(0).reset_index():
\* one row per region, one column per candidate (in sorted order), a missing
\* pair filled with 0
Pivot(agg) ==
    LET index == {key[1] : key \in DOMAIN agg}
        columns == {key[2] : key \in DOMAIN agg}
    IN  [columns |-> SortedSeq(columns),
         rows |-> [m \in index |->
                     [c \in columns |->
                        IF <<m, c>> \in DOMAIN agg THEN agg[<<m, c>>] ELSE 0]]]

DfPivot(df) == Pivot(GroupBySum(FilterYear(df)))

\* candidats = [col for col in df_pivot.columns if col != "moughataa"]
Candidats(df_pivot) == df_pivot.columns

\* df_pivot['total_votes'] = df_pivot[candidats].sum(axis=1)
TotalVotes(df_pivot, cands) ==
    [m \in DOMAIN df_pivot.rows |-> SumOver(df_pivot.rows[m], cands)]

\* {candidat: df_pivot[candidat].sum() for candidat in candidats}
TotauxNationaux(df_pivot, cands) ==
    [c \in {cands[i] : i \in 1..Len(cands)} |->
        SumSet([m \in DOMAIN df_pivot.rows |-> df_pivot.rows[m][c]],
               DOMAIN df_pivot.rows)]

RECURSIVE MaxFrom(_, _, _)
\* Python's max(iterable, key=f) from the second element on: a later element
\* replaces the best only when its key is strictly greater
MaxFrom(best, rest, f) ==
    IF rest = <<>> THEN best
    ELSE MaxFrom(IF f[Head(rest)] > f[best] THEN Head(rest) ELSE best,
                 Tail(rest), f)

RECURSIVE MaxFromLast(_, _, _)
MaxFromLast(best, rest, f) ==
    IF rest = <<>> THEN best
    ELSE MaxFromLast(IF f[Head(rest)] >= f[best] THEN Head(rest) ELSE best,
                     Tail(rest), f)

\* a max that keeps the last of the tied candidates
MaxByKeyLast(cands, f) == MaxFromLast(Head(cands), Tail(cands), f)

\* max(totaux_nationaux, key=totaux_nationaux.get), the dict being non-empty
MaxByKey(cands, f) == MaxFrom(Head(cands), Tail(cands), f)

RECURSIVE SetToSeq(_)
SetToSeq(S) ==
    IF S = {} THEN <<>>
    ELSE LET x == CHOOSE y \in S : TRUE
         IN  <<x>> \o SetToSeq(S \ {x})

\* an outer join: the regions of the results that the geometry lacks are
\* appended as rows
MergeOuter(gdf, df_pivot, cands) ==
    LET all == gdf \o SetToSeq(DOMAIN df_pivot.rows \ {gdf[i] : i \in 1..Len(gdf)})
        total == TotalVotes(df_pivot, cands)
        columns == {cands[i] : i \in 1..Len(cands)}
    IN  [i \in 1..Len(all) |->
            IF all[i] \in DOMAIN df_pivot.rows
            THEN [moughataa |-> all[i],
                  votes |-> [c \in columns |-> Num(df_pivot.rows[all[i]][c])],
                  total_votes |-> Num(total[all[i]])]
            ELSE [moughataa |-> all[i],
                  votes |-> [c \in columns |-> NaN],
                  total_votes |-> NaN]]

\* gdf_moughataas.merge(df_pivot, on="moughataa", how="left"): the geometry
\* rows in their order, each with the pivot row of its region, or NaN in every
\* column of the pivot when the region has none
Merge(gdf, df_pivot, cands) ==
    LET total == TotalVotes(df_pivot, cands)
        columns == {cands[i] : i \in 1..Len(cands)}
    IN  [i \in 1..Len(gdf) |->
            IF gdf[i] \in DOMAIN df_pivot.rows
            THEN [moughataa |-> gdf[i],
                  votes |-> [c \in columns |-> Num(df_pivot.rows[gdf[i]][c])],
                  total_votes |-> Num(total[gdf[i]])]
            ELSE [moughataa |-> gdf[i],
                  votes |-> [c \in columns |-> NaN],
                  total_votes |-> NaN]]

\* a percentage cut to two decimals instead of rounded
DivPctTruncated(count, total) ==
    IF count.k = "nan" \/ total.k = "nan" THEN NaN
    ELSE IF total.v = 0 THEN (IF count.v = 0 THEN NaN ELSE Inf)
    ELSE Num((count.v * 10000) \div total.v)

\* (count / total * 100).round(2), in hundredths
DivPct(count, total) ==
    IF count.k = "nan" \/ total.k = "nan" THEN NaN
    ELSE IF total.v = 0 THEN (IF count.v = 0 THEN NaN ELSE Inf)
    ELSE Num(RoundHalfEven(count.v * 10000, total.v))

\* for candidat in candidats: gdf_clean[f'{candidat}_pct'] = ...
AddPct(table) ==
    [i \in DOMAIN table |->
        [moughataa |-> table[i].moughataa,
         votes |-> table[i].votes,
         total_votes |-> table[i].total_votes,
         pct |-> [c \in DOMAIN table[i].votes |->
                    DivPct(table[i].votes[c], table[i].total_votes)]]]

\* replace([np.inf, -np.inf], 0), on one cell
ReplaceInfCell(x) == IF x.k = "inf" THEN Num(0) ELSE x

\* fillna(0), on one cell
FillNaCell(x) == IF x.k = "nan" THEN Num(0) ELSE x

\* replace(...) then fillna(0) over every numeric column of the table
Clean(table) ==
    [i \in DOMAIN table |->
        [moughataa |-> table[i].moughataa,
         votes |-> [c \in DOMAIN table[i].votes |->
                      FillNaCell(ReplaceInfCell(table[i].votes[c]))],
         total_votes |-> FillNaCell(ReplaceInfCell(table[i].total_votes)),
         pct |-> [c \in DOMAIN table[i].pct |->
                    FillNaCell(ReplaceInfCell(table[i].pct[c]))]]]

\* gdf_clean, the table handed to GeoJSONDataSource
GdfClean(gdf, df_pivot, cands) == Clean(AddPct(Merge(gdf, df_pivot, cands)))

\* ---------------------------------------------------- initial render
\* gdf_clean[candidat_initial].max(), the table having a row
ColumnMax(table, c) ==
    CHOOSE x \in {table[i].votes[c].v : i \in DOMAIN table} :
        \A i \in DOMAIN table : table[i].votes[c].v <= x

\* f"{stats_candidat / sum(totaux_nationaux.values()) * 100:.1f}", in tenths:
\* numpy scalars, so 0/0 is nan; the format rounds ties to even
StatsPct(stats_candidat, total) ==
    IF total = 0 THEN NaN ELSE Num(RoundHalfEven(stats_candidat * 1000, total))

\* the summary panel written at construction
InitialInfo(cands, totaux, gagnant) ==
    [candidat |-> cands[1],
     total |-> totaux[cands[1]],
     part |-> StatsPct(totaux[cands[1]], SumOver(totaux, cands)),
     leader |-> gagnant]

\* ------------------------------------------------------------ callback
RECURSIVE CallbackLoop(_, _, _, _)
\* for (let i = 0; i < data[candidate].length; i++) {...}, from row i on
CallbackLoop(data, candidate, i, acc) ==
    IF i > Len(data) THEN acc
    ELSE LET x == data[i].votes[candidate].v
         IN  CallbackLoop(data, candidate, i + 1,
                 [max_val |-> IF x > acc.max_val THEN x ELSE acc.max_val,
                  total_votes |-> acc.total_votes + x])

\* a loop that stops one row early
CallbackMaxValShort(data, candidate) ==
    CallbackLoop(SubSeq(data, 1, Len(data) - 1), candidate, 1,
                 [max_val |-> 0, total_votes |-> 0]).max_val

\* max_val after the loop
CallbackMaxVal(data, candidate) ==
    CallbackLoop(data, candidate, 1, [max_val |-> 0, total_votes |-> 0]).max_val

\* total_votes after the loop
CallbackTotalVotes(data, candidate) ==
    CallbackLoop(data, candidate, 1, [max_val |-> 0, total_votes |-> 0]).total_votes

\* (total_votes / total_national * 100).toFixed(1), in tenths: 0/0 is NaN and
\* toFixed rounds ties upwards
PctNational(total_votes, total_national) ==
    IF total_national = 0
    THEN (IF total_votes = 0 THEN NaN ELSE Inf)
    ELSE Num(RoundHalfUp(total_votes * 1000, total_national))

\* a callback that names the selected candidate as the leader
CallbackLeaderSelected(gagnant, candidate) == candidate

\* the leader in the callback's text: the string spliced in when the callback
\* was built
CallbackLeader(gagnant, candidate) == gagnant

\* a callback that rescales the selected column in place before emitting
CallbackDataRescaled(data, candidate) ==
    [i \in DOMAIN data |->
        [data[i] EXCEPT !.votes[candidate] =
            Num(IF CallbackMaxVal(data, candidate) = 0 THEN 0
                ELSE (@.v * 100) \div CallbackMaxVal(data, candidate))]]

\* source.data after the callback: it reads the columns and emits a change
CallbackData(data, candidate) == data

\* -------------------------------------------------------------- inputs
RECURSIVE SubsetsUpTo(_, _)
\* the subsets of U of at most k elements
SubsetsUpTo(U, k) ==
    IF k = 0 THEN {{}}
    ELSE LET P == SubsetsUpTo(U, k - 1)
         IN  P \cup {S \cup {x} : S \in P, x \in U}

\* rows of the results file: every row of the target year, and one row of
\* another year (the filter reads nothing but the year of a row)
ResultRows ==
    [year : {TargetYear}, moughataa : Regions, candidate : 1..MaxCand,
     nb_votes : 0..MaxVotes]
    \cup {[year |-> y, moughataa |-> "A", candidate |-> 1, nb_votes |-> MaxVotes] :
            y \in Years \ {TargetYear}}

GeometryFiles == UNION {[1..n -> Regions] : n \in 1..MaxGeo}

\* every small pair of files
SmallInputs ==
    [gdf : GeometryFiles, df : SubsetsUpTo(ResultRows, MaxRows)]

\* ballots with many candidates: n candidates with v votes each in region A,
\* and a region B without results
ManyCandidateInputs ==
    {[gdf |-> <<"A", "B">>,
      df |-> {[year |-> TargetYear, moughataa |-> "A", candidate |-> c,
               nb_votes |-> v] : c \in 1..n}] :
        n \in (MaxCand + 1)..ManyCands, v \in 1..MaxVotes}

Inputs == SmallInputs \cup ManyCandidateInputs

\* ------------------------------------------------------- state machine
NoInfo == [candidat |-> 0, total |-> 0, part |-> NaN, leader |-> 0]

Init ==
    /\ \E inp \in Inputs :
          /\ gdf_moughataas = inp.gdf
          /\ df_elections = inp.df
    /\ pc = "called"
    /\ candidats = <<>>
    /\ totaux_nationaux = <<>>
    /\ gagnant_national = 0
    /\ source = <<>>
    /\ color_mapper = [low |-> 0, high |-> 0]
    /\ fill_field = 0
    /\ title = 0
    /\ hover = [voix |-> 0, part |-> 0]
    /\ info_div = NoInfo
    /\ select_value = 0
    /\ last_event = "none"

\* one call of styled_election_map(shapefile_path, csv_url)
StyledElectionMap ==
    /\ pc = "called"
    /\ LET df_pivot == DfPivot(df_elections)
           cands == Candidats(df_pivot)
           totaux == TotauxNationaux(df_pivot, cands)
       IN  \/ \* max() of an empty dict raises ValueError
              /\ cands = <<>>
              /\ pc' = "raised"
              /\ candidats' = cands
              /\ totaux_nationaux' = totaux
              /\ UNCHANGED <<gagnant_national, source, color_mapper,
                             fill_field, title, hover, info_div,
                             select_value, last_event>>
           \/ /\ cands # <<>>
              /\ pc' = "rendered"
              /\ candidats' = cands
              /\ totaux_nationaux' = totaux
              /\ gagnant_national' = MaxByKey(cands, totaux)
              /\ source' = GdfClean(gdf_moughataas, df_pivot, cands)
              /\ color_mapper' = [low |-> 0, high |-> ColumnMax(source', cands[1])]
              /\ fill_field' = cands[1]
              /\ title' = cands[1]
              /\ hover' = [voix |-> cands[1], part |-> cands[1]]
              /\ info_div' = InitialInfo(cands, totaux, gagnant_national')
              /\ select_value' = cands[1]
              /\ last_event' = "render"
    /\ UNCHANGED <<gdf_moughataas, df_elections>>

\* the CustomJS callback, run when the Select's value changes to candidate
SelectChange(candidate) ==
    /\ pc = "rendered"
    /\ candidate # select_value
    /\ select_value' = candidate
    /\ color_mapper' = [color_mapper EXCEPT !.high = CallbackMaxVal(source, candidate)]
    /\ fill_field' = candidate
    /\ title' = candidate
    /\ hover' = [voix |-> candidate, part |-> candidate]
    /\ info_div' =
          [candidat |-> candidate,
           total |-> CallbackTotalVotes(source, candidate),
           part |-> PctNational(CallbackTotalVotes(source, candidate),
                                SumOver(totaux_nationaux, candidats)),
           leader |-> CallbackLeader(gagnant_national, candidate)]
    /\ source' = CallbackData(source, candidate)
    /\ last_event' = "change"
    /\ UNCHANGED <<gdf_moughataas, df_elections, pc, candidats,
                   totaux_nationaux, gagnant_national>>

Next ==
    \/ StyledElectionMap
    \/ \E i \in 1..Len(candidats) : SelectChange(candidats[i])

Spec == Init /\ [][Next]_vars

\* -------------------------------------------------------------- claims
Rendered == pc = "rendered"

CandidateSet == {candidats[i] : i \in 1..Len(candidats)}

\* sum of candidate c's vote-count column over the rows of a table
ColumnSum(table, c) ==
    SumOver([i \in DOMAIN table |-> table[i].votes[c].v],
            [i \in 1..Len(table) |-> i])

\* sum of the percentage columns of a row, in hundredths
PctSum(row) == SumOver([c \in DOMAIN row.pct |-> row.pct[c].v], candidats)

Abs(x) == IF x < 0 THEN 0 - x ELSE x

\* the rows of the results file that the year filter keeps
TargetRows == {r \in df_elections : r.year = TargetYear}

AllCellsFinite(row) ==
    /\ row.total_votes.k = "num"
    /\ \A c \in DOMAIN row.votes : row.votes[c].k = "num" /\ row.pct[c].k = "num"

\* C1: for every candidate c, the sum of column c over the rows of the table
\* handed to the map equals the national total of c used to pick the leader,
\* also when the geometry lacks a region of the results or repeats a region.
C1_ColumnSumsEqualNationalTotals ==
    Rendered =>
        \A c \in CandidateSet : ColumnSum(source, c) = totaux_nationaux[c]

\* C2 as stated: in every row the percentage columns sum to 100 within 0.1
\* when total_votes > 0, and are all exactly 0 when total_votes is 0; no NaN
\* or infinity is left in the table.
C2_PctSumWithinOneTenth ==
    Rendered =>
        \A i \in DOMAIN source :
            /\ AllCellsFinite(source[i])
            /\ source[i].total_votes.v > 0 =>
                  Abs(PctSum(source[i]) - 10000) <= 10
            /\ source[i].total_votes.v = 0 =>
                  \A c \in CandidateSet : source[i].pct[c] = Num(0)

\* C2 amended: in every row the percentage columns sum to 100 within 0.005
\* per candidate column when total_votes > 0 (so within 0.1 for up to 20
\* candidates), and are all exactly 0 when total_votes is 0; no NaN or
\* infinity is left in the table.
C2_PctSumWithinHalfCentPerCandidate ==
    Rendered =>
        \A i \in DOMAIN source :
            /\ AllCellsFinite(source[i])
            /\ source[i].total_votes.v > 0 =>
                  2 * Abs(PctSum(source[i]) - 10000) <= Len(candidats)
            /\ source[i].total_votes.v = 0 =>
                  \A c \in CandidateSet : source[i].pct[c] = Num(0)

\* a table with a row whose percentages do not sum to exactly 100 and a row
\* of a region without votes
C2_Witness ==
    /\ Rendered
    /\ \E i \in DOMAIN source :
          source[i].total_votes.v > 0 /\ PctSum(source[i]) # 10000
    /\ \E i \in DOMAIN source :
          /\ source[i].total_votes.v = 0
          /\ source[i].moughataa \notin {r.moughataa : r \in TargetRows}

\* C3 as stated: when no row of the results matches the target year, the call
\* completes without raising and the table has no candidate columns.
C3_NoMatchCompletes ==
    (TargetRows = {} /\ pc # "called") => (Rendered /\ candidats = <<>>)

\* C3 amended: when no row of the results matches the target year, filter,
\* aggregation and pivot yield a table without candidate columns and the call
\* then raises at the choice of the leader: no table reaches the map and
\* nothing is rendered.
C3_NoMatchRaises ==
    (TargetRows = {} /\ pc # "called") =>
        /\ pc = "raised"
        /\ candidats = <<>>
        /\ source = <<>>
        /\ last_event = "none"

\* a call that raised on a results file whose rows are all of another year
C3_Witness == pc = "raised" /\ df_elections # {} /\ TargetRows = {}

\* C4: left join from the geometry: the table has the geometry's regions row
\* for row, each with the votes of its region summed per candidate, a geometry
\* region without results has 0 in every candidate column,
\* in total_votes and in every percentage column, and a region found only in
\* the results is in no row.
C4_LeftJoin ==
    Rendered =>
        /\ Len(source) = Len(gdf_moughataas)
        /\ \A i \in DOMAIN source :
              /\ source[i].moughataa = gdf_moughataas[i]
              /\ \A c \in CandidateSet :
                    source[i].votes[c] =
                        Num(SumVotes({r \in TargetRows :
                                        /\ r.moughataa = gdf_moughataas[i]
                                        /\ r.candidate = c}))
              /\ gdf_moughataas[i] \notin {r.moughataa : r \in TargetRows} =>
                    /\ source[i].total_votes = Num(0)
                    /\ \A c \in CandidateSet :
                          source[i].votes[c] = Num(0) /\ source[i].pct[c] = Num(0)
        /\ \A r \in TargetRows :
              r.moughataa \notin {gdf_moughataas[i] : i \in 1..Len(gdf_moughataas)} =>
                  \A i \in DOMAIN source : source[i].moughataa # r.moughataa

\* a geometry region without results beside a results region without geometry
C4_Witness ==
    /\ Rendered
    /\ \E i \in DOMAIN source :
          source[i].moughataa \notin {r.moughataa : r \in TargetRows}
    /\ \E r \in TargetRows :
          /\ r.nb_votes > 0
          /\ r.moughataa \notin {gdf_moughataas[i] : i \in 1..Len(gdf_moughataas)}

\* C5: the national total of a candidate is the sum of its votes over the rows
\* of the target year; the leader has a maximal national total and is the
\* first such candidate in column order; a candidate with national total 0 is not the leader when
\* another candidate has a national total > 0.
C5_LeaderIsFirstArgmax ==
    Rendered =>
        /\ gagnant_national \in CandidateSet
        /\ \A c \in CandidateSet :
              /\ totaux_nationaux[c] =
                    SumVotes({r \in TargetRows : r.candidate = c})
              /\ totaux_nationaux[c] <= totaux_nationaux[gagnant_national]
              /\ totaux_nationaux[c] = totaux_nationaux[gagnant_national] =>
                    gagnant_national <= c
        /\ (\E c \in CandidateSet : totaux_nationaux[c] > 0) =>
              totaux_nationaux[gagnant_national] > 0

\* two candidates tied for the maximum, with votes
C5_Witness ==
    /\ Rendered
    /\ \E c, d \in CandidateSet :
          /\ c # d
          /\ totaux_nationaux[c] = totaux_nationaux[d]
          /\ totaux_nationaux[c] > 0
          /\ \A e \in CandidateSet : totaux_nationaux[e] <= totaux_nationaux[c]

\* the greatest value of candidate c's column over the rows of a table
MaxOfColumn(table, c) ==
    CHOOSE x \in {table[i].votes[c].v : i \in DOMAIN table} :
        \A i \in DOMAIN table : table[i].votes[c].v <= x

\* C6: at the initial render and after any selection changes, the colour scale
\* runs from 0 to the maximum of the selected candidate's vote-count column
\* over the rows of the table, and the polygons are coloured by that column.
C6_ColorScaleFollowsSelection ==
    Rendered =>
        /\ color_mapper.low = 0
        /\ color_mapper.high = MaxOfColumn(source, select_value)
        /\ fill_field = select_value

\* after a change, a scale whose upper bound differs from the initial one
C6_Witness ==
    /\ last_event = "change"
    /\ color_mapper.high > 0
    /\ color_mapper.high # MaxOfColumn(source, candidats[1])

\* C7: after a selection change to c the summary shows the precomputed national
\* total of c and its share of the sum of the precomputed national totals,
\* times 100, rounded to one decimal.
C7_SummaryShowsPrecomputedTotals ==
    last_event = "change" =>
        LET all == SumOver(totaux_nationaux, candidats)
            mine == totaux_nationaux[select_value]
        IN  /\ info_div.total = mine
            /\ all > 0 =>
                  info_div.part \in {Num(RoundHalfEven(mine * 1000, all)),
                                     Num(RoundHalfUp(mine * 1000, all))}

\* C8: a selection change leaves every row and column of the map's data source
\* as it was.
C8_SourceNeverMutated == [][Rendered => source' = source]_vars

\* the callback has run on a table that holds votes
C8_Witness ==
    /\ last_event = "change"
    /\ \E i \in DOMAIN source : source[i].votes[select_value].v > 0

\* C9: at the initial render and after any selection changes the summary names
\* the leader chosen during preparation, whoever is selected.
C9_LeaderNotSelectionDependent ==
    Rendered =>
        /\ info_div.leader = gagnant_national
        /\ \A c \in CandidateSet :
              totaux_nationaux[c] <= totaux_nationaux[info_div.leader]

\* after a change to a candidate who is not the leader
C9_Witness ==
    /\ last_event = "change"
    /\ select_value # gagnant_national
    /\ totaux_nationaux[select_value] < totaux_nationaux[gagnant_national]

\* C10: the view depends on the selected candidate alone; with the first
\* candidate selected it is the view of the initial render, also after other
\* candidates were selected in between.
C10_ViewOfFirstCandidateIsInitialView ==
    (Rendered /\ select_value = candidats[1]) =>
        /\ color_mapper = [low |-> 0, high |-> ColumnMax(source, candidats[1])]
        /\ fill_field = candidats[1]
        /\ title = candidats[1]
        /\ hover = [voix |-> candidats[1], part |-> candidats[1]]
        /\ info_div = InitialInfo(candidats, totaux_nationaux, gagnant_national)

=============================================================================
